---- MODULE Spec2Model ----
(***************************************************************************)
(* Pallet packing (0/1 knapsack) solvers of src/algorithms.cpp, driven by  *)
(* the menu of src/readinputs_and_menu.cpp.  A dataset (catalog of pallets *)
(* and truck capacity) is loaded, then the five solvers are run on it in   *)
(* menu order.  The two dynamic-programming solvers are modelled one table *)
(* cell at a time; brute force, backtracking and greedy are modelled as    *)
(* the functions they compute.  Sequences are 1-based: pallets[i] here is   *)
(* pallets[i - 1] of the code, and i1 counts the 1-D passes from 1.         *)
(* Weights, profits and sums stay far below the range of int.              *)
(***************************************************************************)
EXTENDS Integers, Sequences, FiniteSets

\* ------------------------------------------------------------------ bounds

\* General catalogs hold up to MaxPallets pallets with ids in 1..MaxPallets,
\* in any order; uniform catalogs hold MaxPallets + 1 pallets.
MaxPallets == 2
\* Largest weight of a pallet.
MaxWeight == 2
\* Largest profit of a pallet in a general or uniform catalog.
MaxProfit == 2
\* Largest truck capacity loaded with a general or uniform catalog.
MaxCapacity == 3
\* Negative capacities -MaxNegCapacity .. -1 are loaded with general catalogs.
MaxNegCapacity == 2
\* Single-pallet catalogs are loaded with profits and capacities up to these.
MaxSingleProfit == 5
MaxSingleCapacity == 4

\* ------------------------------------------------------------------ data

Range(s) == {s[k] : k \in 1..Len(s)}

\* Pallet.h: struct Pallet {id, weight, profit}
Pallet(id, w, p) == [id |-> id, weight |-> w, profit |-> p]

\* Sequences of n distinct ids out of 1..maxId, in any order
IdSeqs(n, maxId) ==
    {s \in [1..n -> 1..maxId] : \A a, b \in 1..n : a # b => s[a] # s[b]}

\* Catalogs as readPalletData builds them: n pallets in file order, unique ids.
Catalogs(n, maxId, maxP) ==
    {[k \in 1..n |-> Pallet(ids[k], ws[k], ps[k])] :
        ids \in IdSeqs(n, maxId), ws \in [1..n -> 0..MaxWeight], ps \in [1..n -> 0..maxP]}

\* Catalogs of n pallets that all weigh and earn the same.
UniformCatalogs(n) ==
    {[k \in 1..n |-> Pallet(ids[k], w, p)] :
        ids \in IdSeqs(n, n), w \in 0..MaxWeight, p \in 0..MaxProfit}

\* The datasets readTruckData and readPalletData load come in three families:
\* general catalogs of up to MaxPallets pallets, uniform catalogs of
\* MaxPallets + 1 pallets, and single pallets with larger profits and capacities.
Families == {"general", "uniform", "single"}

PalletCounts(f) ==
    IF f = "general" THEN 0..MaxPallets
    ELSE IF f = "uniform" THEN {MaxPallets + 1}
    ELSE {1}

FamilyCatalogs(f, k) ==
    IF f = "general" THEN Catalogs(k, MaxPallets, MaxProfit)
    ELSE IF f = "uniform" THEN UniformCatalogs(k)
    ELSE Catalogs(k, MaxPallets, MaxSingleProfit)

Capacities(f) ==
    IF f = "general" THEN (0 - MaxNegCapacity)..MaxCapacity
    ELSE IF f = "uniform" THEN 0..MaxCapacity
    ELSE 0..MaxSingleCapacity

\* struct DPCell {profit, numPallets, subset}
DPCell(p, c, s) == [profit |-> p, numPallets |-> c, subset |-> s]
EmptyCell == DPCell(0, 0, <<>>)

\* std::vector<int>::operator< : lexicographic comparison
VecLess(a, b) ==
    \E k \in 1..Len(b) :
        /\ \A m \in 1..(k - 1) : m <= Len(a) /\ a[m] = b[m]
        /\ (k > Len(a) \/ a[k] < b[k])

\* What a solver prints: the profit and the selected ids, in printed order.
NoOutput == [printed |-> FALSE, profit |-> 0, subset |-> <<>>]
Output(p, s) == [printed |-> TRUE, profit |-> p, subset |-> s]

Methods == {"bf", "bt", "dp", "dp1d", "greedy"}
ExactMethods == {"bf", "bt", "dp", "dp1d"}

VARIABLES pallets, capacity, pc, fault, out, dp, di, dj, dp1, i1, k1

vars == <<pallets, capacity, pc, fault, out, dp, di, dj, dp1, i1, k1>>

n == Len(pallets)

\* ------------------------------------------------------------ brute force

\* isSelected[i] of line 19: bit i (0-based) of total
IsSelected(total, i) == (total \div (2 ^ i)) % 2 = 1

\* lines 23-33: weight, profit and ids of the subset encoded by total
SubsetOf(ps, total) ==
    LET f[i \in 0..Len(ps)] ==
            IF i = 0 THEN [totalWeight |-> 0, totalProfit |-> 0, currentSubset |-> <<>>]
            ELSE IF IsSelected(total, i - 1)
                 THEN [totalWeight |-> f[i - 1].totalWeight + ps[i].weight,
                       totalProfit |-> f[i - 1].totalProfit + ps[i].profit,
                       currentSubset |-> Append(f[i - 1].currentSubset, ps[i].id)]
                 ELSE f[i - 1]
    IN f[Len(ps)]

\* lines 36-38 and 60-62: the candidate replaces the best so far
Improves(profit, subset, best) ==
    \/ profit > best.maxProfit
    \/ profit = best.maxProfit /\ Len(subset) < Len(best.bestSubset)
    \/ profit = best.maxProfit /\ Len(subset) = Len(best.bestSubset)
                               /\ VecLess(subset, best.bestSubset)

BFFeasibleOff(totalWeight, cap) == totalWeight <= cap + 1

\* line 35
BFFeasible(totalWeight, cap) == totalWeight <= cap

\* lines 14-44: the loop over total, from total on
RECURSIVE BruteForceLoop(_, _, _, _)
BruteForceLoop(ps, cap, total, best) ==
    IF total >= 2 ^ Len(ps) THEN best
    ELSE LET c == SubsetOf(ps, total)
             nb == IF BFFeasible(c.totalWeight, cap)
                      /\ Improves(c.totalProfit, c.currentSubset, best)
                   THEN [maxProfit |-> c.totalProfit, bestSubset |-> c.currentSubset]
                   ELSE best
         IN BruteForceLoop(ps, cap, total + 1, nb)

runBruteForce(ps, cap) ==
    LET best == BruteForceLoop(ps, cap, 0, [maxProfit |-> 0, bestSubset |-> <<>>])
    IN Output(best.maxProfit, best.bestSubset)

\* ----------------------------------------------------------- backtracking

BacktrackPruneEager(currentWeight, cap) == currentWeight >= cap

\* line 70
BacktrackPrune(currentWeight, cap) == currentWeight > cap

\* lines 55-85; index is 0-based as in the code, best is (maxProfit, bestSet)
RECURSIVE backtrackKnapsack(_, _, _, _, _, _, _)
backtrackKnapsack(ps, index, cap, currentWeight, currentProfit, currentSet, best) ==
    IF index = Len(ps)
    THEN IF currentWeight <= cap /\ Improves(currentProfit, currentSet, best)
         THEN [maxProfit |-> currentProfit, bestSubset |-> currentSet]
         ELSE best
    ELSE IF BacktrackPrune(currentWeight, cap) THEN best
    ELSE LET skipped == backtrackKnapsack(ps, index + 1, cap, currentWeight,
                                          currentProfit, currentSet, best)
         IN backtrackKnapsack(ps, index + 1, cap,
                              currentWeight + ps[index + 1].weight,
                              currentProfit + ps[index + 1].profit,
                              Append(currentSet, ps[index + 1].id), skipped)

runBruteForceBacktrack(ps, cap) ==
    LET best == backtrackKnapsack(ps, 0, cap, 0, 0, <<>>,
                                  [maxProfit |-> 0, bestSubset |-> <<>>])
    IN Output(best.maxProfit, best.bestSubset)

\* ------------------------------------------------------ dynamic programming

DPCellLessMoreFirst(a, b) ==
    IF a.profit # b.profit THEN a.profit < b.profit
    ELSE IF a.numPallets # b.numPallets THEN a.numPallets < b.numPallets
    ELSE VecLess(b.subset, a.subset)

\* DPCell::operator< : a is worse than b
DPCellLess(a, b) ==
    IF a.profit # b.profit THEN a.profit < b.profit
    ELSE IF a.numPallets # b.numPallets THEN a.numPallets > b.numPallets
    ELSE VecLess(b.subset, a.subset)

\* std::max(a, b): b when a < b, else a
MaxCell(a, b) == IF DPCellLess(a, b) THEN b ELSE a

\* lines 138-140 and 170-172: the cell with the pallet added
WithPallet(cell, pal) ==
    DPCell(cell.profit + pal.profit, cell.numPallets + 1, Append(cell.subset, pal.id))

\* lines 132-144: the value written to dp[i][j]
DPCellValue(table, ps, i, j) ==
    LET without == table[i - 1][j]
        with == IF j >= ps[i].weight
                THEN WithPallet(table[i - 1][j - ps[i].weight], ps[i])
                ELSE EmptyCell
    IN MaxCell(without, with)

\* What reading a vector out of bounds may hand back when it does not fault.
GarbageCells == {EmptyCell}

\* line 168: the cells of one pass, in the order they are visited
DP1DScanOrderAscending(w, cap) ==
    IF cap >= w THEN [k \in 1..(cap - w + 1) |-> w + k - 1] ELSE <<>>

DP1DScanOrder(w, cap) ==
    IF cap >= w THEN [k \in 1..(cap - w + 1) |-> cap - k + 1] ELSE <<>>

DP1DShouldUpdateAlways(cell, with) == TRUE

\* line 174
DP1DShouldUpdate(cell, with) == DPCellLess(cell, with)

\* lines 169-176: one cell update of the pass of pallet pal
DP1DUpdate(arr, pal, j) ==
    LET with == WithPallet(arr[j - pal.weight], pal)
    IN IF DP1DShouldUpdate(arr[j], with) THEN [arr EXCEPT ![j] = with] ELSE arr

\* lines 181-186: the best cell of the whole array
DP1DBest(arr, cap) ==
    LET f[j \in 0..cap] ==
            IF j = 0 THEN arr[0]
            ELSE IF DPCellLess(f[j - 1], arr[j]) THEN arr[j] ELSE f[j - 1]
    IN f[cap]

\* ----------------------------------------------------------------- greedy

\* ratio = (double)weight / profit (line 214): 0/0 is NaN, w/0 is +inf
IsNaN(a) == a.weight = 0 /\ a.profit = 0
IsInf(a) == a.weight > 0 /\ a.profit = 0

\* ratio != other.ratio
RatioNeq(a, b) ==
    IF IsNaN(a) \/ IsNaN(b) THEN TRUE
    ELSE IF IsInf(a) \/ IsInf(b) THEN ~(IsInf(a) /\ IsInf(b))
    ELSE a.weight * b.profit # b.weight * a.profit

\* ratio < other.ratio
RatioLess(a, b) ==
    IF IsNaN(a) \/ IsNaN(b) THEN FALSE
    ELSE IF IsInf(a) THEN FALSE
    ELSE IF IsInf(b) THEN TRUE
    ELSE a.weight * b.profit < b.weight * a.profit

\* GreedyItem::operator< (lines 206-209)
GreedyItemLess(a, b) == IF RatioNeq(a, b) THEN RatioLess(a, b) ELSE a.id > b.id

Permutations(ps) ==
    {[k \in 1..Len(ps) |-> ps[f[k]]] :
        f \in {g \in [1..Len(ps) -> 1..Len(ps)] :
                  \A a, b \in 1..Len(ps) : a # b => g[a] # g[b]}}

\* line 217: std::sort.  With a NaN ratio the comparison is no strict weak
\* ordering and the resulting order is unspecified: any permutation.
SortedItems(ps) ==
    IF \E k \in 1..Len(ps) : IsNaN(ps[k]) THEN Permutations(ps)
    ELSE {s \in Permutations(ps) :
             \A a, b \in 1..Len(s) : a < b => ~GreedyItemLess(s[b], s[a])}

GreedyFitsAll(totalWeight, w, cap) == TRUE

GreedyFitsStrict(totalWeight, w, cap) == totalWeight + w < cap

\* line 224
GreedyFits(totalWeight, w, cap) == totalWeight + w <= cap

\* line 231: std::sort(selected)
RECURSIVE SortAscending(_)
SortAscending(S) ==
    IF S = {} THEN <<>>
    ELSE LET m == CHOOSE x \in S : \A y \in S : x <= y
         IN <<m>> \o SortAscending(S \ {m})

\* lines 219-231: the greedy fill over the sorted items
GreedyFill(items, cap) ==
    LET f[k \in 0..Len(items)] ==
            IF k = 0 THEN [totalWeight |-> 0, totalProfit |-> 0, selected |-> {}]
            ELSE IF GreedyFits(f[k - 1].totalWeight, items[k].weight, cap)
                 THEN [totalWeight |-> f[k - 1].totalWeight + items[k].weight,
                       totalProfit |-> f[k - 1].totalProfit + items[k].profit,
                       selected |-> f[k - 1].selected \cup {items[k].id}]
                 ELSE f[k - 1]
    IN Output(f[Len(items)].totalProfit, SortAscending(f[Len(items)].selected))

\* ------------------------------------------------------------ the program

\* option 1 of main: a dataset is loaded, and the algorithm menu is shown
Init ==
    /\ \E f \in Families : \E k \in PalletCounts(f) :
          \E c \in FamilyCatalogs(f, k) : \E cap \in Capacities(f) :
             pallets = c /\ capacity = cap
    /\ pc = "bf"
    /\ fault = "none"
    /\ out = [m \in Methods |-> NoOutput]
    /\ dp = <<>>
    /\ di = 0
    /\ dj = 0
    /\ dp1 = <<>>
    /\ i1 = 0
    /\ k1 = 0

\* case 1
RunBruteForce ==
    /\ pc = "bf"
    /\ out' = [out EXCEPT !["bf"] = runBruteForce(pallets, capacity)]
    /\ pc' = "bt"
    /\ UNCHANGED <<pallets, capacity, fault, dp, di, dj, dp1, i1, k1>>

\* case 2
RunBruteForceBacktrack ==
    /\ pc = "bt"
    /\ out' = [out EXCEPT !["bt"] = runBruteForceBacktrack(pallets, capacity)]
    /\ pc' = "dp"
    /\ UNCHANGED <<pallets, capacity, fault, dp, di, dj, dp1, i1, k1>>

\* case 3, lines 117-123: the table is allocated and row 0 initialised.
\* capacity + 1 < 0 is no vector size: the constructor throws length_error.
DPStart ==
    /\ pc = "dp"
    /\ IF capacity + 1 < 0
       THEN /\ pc' = "crashed"
            /\ fault' = "length_error"
            /\ UNCHANGED <<dp, di, dj>>
       ELSE /\ dp' = [i \in 0..n |-> [j \in 0..capacity |-> EmptyCell]]
            /\ di' = 1
            /\ dj' = 0
            /\ pc' = "dp_fill"
            /\ UNCHANGED fault
    /\ UNCHANGED <<pallets, capacity, out, dp1, i1, k1>>

\* lines 125-146: one cell, or the step to the next row
DPFill ==
    /\ pc = "dp_fill"
    /\ di <= n
    /\ IF dj <= capacity
       THEN /\ dp' = [dp EXCEPT ![di][dj] = DPCellValue(dp, pallets, di, dj)]
            /\ dj' = dj + 1
            /\ di' = di
       ELSE /\ di' = di + 1
            /\ dj' = 0
            /\ dp' = dp
    /\ UNCHANGED <<pallets, capacity, pc, fault, out, dp1, i1, k1>>

\* lines 148-155: dp[n][capacity] is printed
DPReport ==
    /\ pc = "dp_fill"
    /\ di > n
    /\ capacity >= 0
    /\ out' = [out EXCEPT !["dp"] = Output(dp[n][capacity].profit, dp[n][capacity].subset)]
    /\ pc' = "dp1d"
    /\ UNCHANGED <<pallets, capacity, fault, dp, di, dj, dp1, i1, k1>>

\* line 148 with capacity = -1: dp[n][-1] is read out of bounds
DPReportOutOfBounds ==
    /\ pc = "dp_fill"
    /\ di > n
    /\ capacity < 0
    /\ \/ /\ pc' = "crashed"
          /\ fault' = "out_of_bounds"
          /\ out' = out
       \/ /\ \E g \in GarbageCells : out' = [out EXCEPT !["dp"] = Output(g.profit, g.subset)]
          /\ pc' = "dp1d"
          /\ fault' = "out_of_bounds"
    /\ UNCHANGED <<pallets, capacity, dp, di, dj, dp1, i1, k1>>

\* case 4, lines 159-160
DP1DStart ==
    /\ pc = "dp1d"
    /\ IF capacity + 1 < 0
       THEN /\ pc' = "crashed"
            /\ fault' = "length_error"
            /\ UNCHANGED <<dp1, i1, k1>>
       ELSE /\ dp1' = [j \in 0..capacity |-> EmptyCell]
            /\ i1' = 1
            /\ k1' = 1
            /\ pc' = "dp1d_fill"
            /\ UNCHANGED fault
    /\ UNCHANGED <<pallets, capacity, out, dp, di, dj>>

\* lines 162-178: one cell update (position k1 of the pass of pallet i1), or
\* the step to the next pallet
DP1DFill ==
    /\ pc = "dp1d_fill"
    /\ i1 <= n
    /\ LET order == DP1DScanOrder(pallets[i1].weight, capacity)
       IN IF k1 <= Len(order)
          THEN /\ dp1' = DP1DUpdate(dp1, pallets[i1], order[k1])
               /\ k1' = k1 + 1
               /\ i1' = i1
          ELSE /\ i1' = i1 + 1
               /\ k1' = 1
               /\ dp1' = dp1
    /\ UNCHANGED <<pallets, capacity, pc, fault, out, dp, di, dj>>

\* lines 180-193
DP1DReport ==
    /\ pc = "dp1d_fill"
    /\ i1 > n
    /\ capacity >= 0
    /\ LET best == DP1DBest(dp1, capacity)
       IN out' = [out EXCEPT !["dp1d"] = Output(best.profit, best.subset)]
    /\ pc' = "greedy"
    /\ UNCHANGED <<pallets, capacity, fault, dp, di, dj, dp1, i1, k1>>

\* line 181 with capacity = -1: dp[0] of an empty vector is read
DP1DReportOutOfBounds ==
    /\ pc = "dp1d_fill"
    /\ i1 > n
    /\ capacity < 0
    /\ \/ /\ pc' = "crashed"
          /\ fault' = "out_of_bounds"
          /\ out' = out
       \/ /\ \E g \in GarbageCells : out' = [out EXCEPT !["dp1d"] = Output(g.profit, g.subset)]
          /\ pc' = "greedy"
          /\ fault' = "out_of_bounds"
    /\ UNCHANGED <<pallets, capacity, dp, di, dj, dp1, i1, k1>>

\* case 5
RunGreedyApproach ==
    /\ pc = "greedy"
    /\ \E items \in SortedItems(pallets) :
          out' = [out EXCEPT !["greedy"] = GreedyFill(items, capacity)]
    /\ pc' = "done"
    /\ UNCHANGED <<pallets, capacity, fault, dp, di, dj, dp1, i1, k1>>

Next ==
    \/ RunBruteForce
    \/ RunBruteForceBacktrack
    \/ DPStart
    \/ DPFill
    \/ DPReport
    \/ DPReportOutOfBounds
    \/ DP1DStart
    \/ DP1DFill
    \/ DP1DReport
    \/ DP1DReportOutOfBounds
    \/ RunGreedyApproach

Spec == Init /\ [][Next]_vars

\* lines 162-178 run to completion: the pass of one pallet from position k on,
\* and the array after the passes of all pallets
RECURSIVE DP1DPass(_, _, _, _)
DP1DPass(arr, pal, order, k) ==
    IF k > Len(order) THEN arr
    ELSE DP1DPass(DP1DUpdate(arr, pal, order[k]), pal, order, k + 1)

DP1DPasses(ps, cap) ==
    LET f[i \in 0..Len(ps)] ==
            IF i = 0 THEN [j \in 0..cap |-> EmptyCell]
            ELSE DP1DPass(f[i - 1], ps[i], DP1DScanOrder(ps[i].weight, cap), 1)
    IN f[Len(ps)]

\* ------------------------------------------------- the Tie-Break Ordering

\* Sum of f over the set S of its arguments
RECURSIVE SetSum(_, _)
SetSum(f, S) ==
    IF S = {} THEN 0
    ELSE LET x == CHOOSE y \in S : TRUE IN f[x] + SetSum(f, S \ {x})

\* The Solution Candidate made of the catalog positions S: its members are the
\* ids in ascending numeric order.
Candidate(ps, S) ==
    [profit |-> SetSum([k \in 1..Len(ps) |-> ps[k].profit], S),
     size |-> Cardinality(S),
     members |-> SortAscending({ps[k].id : k \in S}),
     weight |-> SetSum([k \in 1..Len(ps) |-> ps[k].weight], S)]

\* A is better than B: more profit, then fewer pallets, then the
\* lexicographically smaller ascending id sequence.
Better(A, B) ==
    \/ A.profit > B.profit
    \/ A.profit = B.profit /\ A.size < B.size
    \/ A.profit = B.profit /\ A.size = B.size /\ VecLess(A.members, B.members)

\* The best candidate among the subsets of the first i pallets that weigh at most j
TieBreakBest(ps, i, j) ==
    LET F == {c \in {Candidate(ps, S) : S \in SUBSET (1..i)} : c.weight <= j}
    IN CHOOSE A \in F : \A B \in F \ {A} : Better(A, B)

\* A printed result or a table cell selects exactly the candidate A
Selects(profit, subset, A) ==
    /\ profit = A.profit
    /\ Len(subset) = A.size
    /\ Range(subset) = Range(A.members)

IdsAscending(ps) == \A a, b \in 1..Len(ps) : a < b => ps[a].id < ps[b].id
AllPositiveWeights(ps) == \A k \in 1..Len(ps) : ps[k].weight > 0
AllPositiveProfits(ps) == \A k \in 1..Len(ps) : ps[k].profit > 0
TotalWeight(ps) == SetSum([k \in 1..Len(ps) |-> ps[k].weight], 1..Len(ps))

\* C1: for capacity >= 0, backtracking prints the same profit and the same id
\* sequence as brute force.
C1_BacktrackEqualsBruteForce ==
    (capacity >= 0 /\ out["bt"].printed) =>
        /\ out["bf"].printed
        /\ out["bt"].profit = out["bf"].profit
        /\ out["bt"].subset = out["bf"].subset

\* C1 witness: both have run on a catalog that does not fit as a whole, and a
\* non-empty selection was printed.
C1_Witness ==
    /\ capacity >= 0
    /\ out["bt"].printed
    /\ TotalWeight(pallets) > capacity
    /\ Len(out["bt"].subset) >= 1

\* C2: for capacity >= 0, the 2-D DP, the 1-D DP and brute force print the same
\* profit and, sorted by ascending id, the same selection.
C2_DPsEqualBruteForce ==
    (capacity >= 0 /\ out["dp1d"].printed) =>
        /\ out["dp"].printed /\ out["bf"].printed
        /\ out["dp"].profit = out["bf"].profit
        /\ out["dp1d"].profit = out["bf"].profit
        /\ SortAscending(Range(out["dp"].subset)) = SortAscending(Range(out["bf"].subset))
        /\ SortAscending(Range(out["dp1d"].subset)) = SortAscending(Range(out["bf"].subset))
        /\ Len(out["dp"].subset) = Len(out["bf"].subset)
        /\ Len(out["dp1d"].subset) = Len(out["bf"].subset)

\* C2 witness: all three have run, some pallets were selected and some left out.
C2_Witness ==
    /\ capacity >= 0
    /\ out["dp1d"].printed
    /\ Len(out["dp"].subset) >= 1
    /\ Len(out["dp"].subset) < n

\* C3 (as claimed): for capacity >= 0 and ids in any catalog order, each exact
\* method prints the candidate that is best under the Tie-Break Ordering.
C3_ExactMethodsPrintTieBreakBest ==
    (capacity >= 0 /\ out["dp1d"].printed) =>
        \A m \in ExactMethods :
            /\ out[m].printed
            /\ Selects(out[m].profit, out[m].subset, TieBreakBest(pallets, n, capacity))

\* C3 on catalogs whose ids ascend in catalog order: there the exact methods
\* do print the best candidate under the Tie-Break Ordering.
TieBreakBestOnAscendingCatalogs ==
    (capacity >= 0 /\ out["dp1d"].printed /\ IdsAscending(pallets)) =>
        \A m \in ExactMethods :
            /\ out[m].printed
            /\ Selects(out[m].profit, out[m].subset, TieBreakBest(pallets, n, capacity))

\* C4: with positive profits and capacity >= 0, greedy's profit is at most
\* brute force's.
C4_GreedyAtMostBruteForce ==
    (capacity >= 0 /\ out["greedy"].printed /\ AllPositiveProfits(pallets)) =>
        /\ out["bf"].printed
        /\ out["greedy"].profit <= out["bf"].profit

\* C4 witness: greedy has run on positive profits and earned strictly less.
C4_Witness ==
    /\ capacity >= 0
    /\ out["greedy"].printed
    /\ AllPositiveProfits(pallets)
    /\ out["greedy"].profit < out["bf"].profit

\* All pallets have the same profit/weight ratio (weights and profits positive).
EqualRatios(ps) ==
    /\ AllPositiveWeights(ps) /\ AllPositiveProfits(ps)
    /\ \A a, b \in 1..Len(ps) : ps[a].weight * ps[b].profit = ps[b].weight * ps[a].profit

\* All pallets have the same positive weight and the same positive profit.
SameWeightAndProfit(ps) ==
    /\ AllPositiveWeights(ps) /\ AllPositiveProfits(ps)
    /\ \A a, b \in 1..Len(ps) : ps[a].weight = ps[b].weight /\ ps[a].profit = ps[b].profit

\* C5 (as claimed): when all pallets have the same profit/weight ratio, greedy's
\* profit equals brute force's.
C5_EqualRatiosGreedyOptimal ==
    (capacity >= 0 /\ out["greedy"].printed /\ EqualRatios(pallets)) =>
        out["greedy"].profit = out["bf"].profit

\* C5 (amended): when all pallets have the same positive weight and the same
\* positive profit, greedy's profit equals brute force's.
C5_SameWeightAndProfitGreedyOptimal ==
    (capacity >= 0 /\ out["greedy"].printed /\ SameWeightAndProfit(pallets)) =>
        /\ out["bf"].printed
        /\ out["greedy"].profit = out["bf"].profit

\* C5 witness: greedy has run on several equal pallets of which some but not
\* all fit.
C5_Witness ==
    /\ capacity >= 0
    /\ out["greedy"].printed
    /\ SameWeightAndProfit(pallets)
    /\ n >= 2
    /\ Len(out["greedy"].subset) >= 1
    /\ Len(out["greedy"].subset) < n

\* C6: with capacity 0 and a non-empty catalog of positive weights, all five
\* methods print profit 0 and an empty selection.
C6_CapacityZeroEmptySelection ==
    (pc = "done" /\ capacity = 0 /\ n >= 1 /\ AllPositiveWeights(pallets)) =>
        \A m \in Methods :
            out[m].printed /\ out[m].profit = 0 /\ out[m].subset = <<>>

\* C6 witness: all five have run with capacity 0 on positive weights, and some
\* pallet has a profit to earn.
C6_Witness ==
    /\ pc = "done"
    /\ capacity = 0
    /\ n >= 1
    /\ AllPositiveWeights(pallets)
    /\ \E k \in 1..n : pallets[k].profit > 0

\* The pallet of the catalog with this id
PalletOfId(ps, id) == ps[CHOOSE k \in 1..Len(ps) : ps[k].id = id]

\* A 1-D cell at capacity j: every id at most once and from the catalog,
\* numPallets and profit those of its members, members' weight at most j.
CellWellFormed(cell, ps, j) ==
    /\ \A a, b \in 1..Len(cell.subset) : a # b => cell.subset[a] # cell.subset[b]
    /\ Range(cell.subset) \subseteq {ps[k].id : k \in 1..Len(ps)}
    /\ cell.numPallets = Len(cell.subset)
    /\ cell.profit = SetSum([k \in 1..Len(cell.subset) |->
                                PalletOfId(ps, cell.subset[k]).profit], 1..Len(cell.subset))
    /\ SetSum([k \in 1..Len(cell.subset) |->
                  PalletOfId(ps, cell.subset[k]).weight], 1..Len(cell.subset)) <= j

\* C7: at every point of the 1-D DP, before, within and after each pass, every
\* cell dp[j] is well formed; a single pallet is never counted twice.
C7_DP1DCellsWellFormed ==
    (capacity >= 0 /\ pc \in {"dp1d_fill", "greedy", "done"}) =>
        /\ \A j \in 0..capacity : CellWellFormed(dp1[j], pallets, j)
        /\ (out["dp1d"].printed /\ n = 1) => out["dp1d"].profit \in {0, pallets[1].profit}

\* C7 witness: a single pallet of weight 2 and profit 5 with capacity 4 has
\* been processed and profit 5 printed.
C7_Witness ==
    /\ n = 1
    /\ pallets[1].weight = 2
    /\ pallets[1].profit = 5
    /\ capacity = 4
    /\ out["dp1d"].printed
    /\ out["dp1d"].profit = 5
    /\ dp1[4].subset = <<pallets[1].id>>

\* C8 (as claimed): with a negative capacity no method prints a result and no
\* table or array is indexed out of bounds.
C8_NegativeCapacityRejected ==
    capacity < 0 =>
        /\ \A m \in Methods : ~out[m].printed
        /\ fault # "out_of_bounds"

\* dp[i][j] has been written
Written(i, j) == i < di \/ (i = di /\ j < dj)

\* C9 (as claimed): every written cell dp[i][j] holds the best candidate under
\* the Tie-Break Ordering among the subsets of the first i pallets that weigh at
\* most j, and the printed result is dp[n][C].
C9_TableHoldsTieBreakBest ==
    (capacity >= 0 /\ (pc = "dp_fill" \/ out["dp"].printed)) =>
        /\ \A i \in 0..n : \A j \in 0..capacity :
              Written(i, j) =>
                  Selects(dp[i][j].profit, dp[i][j].subset, TieBreakBest(pallets, i, j))
        /\ out["dp"].printed =>
              out["dp"] = Output(dp[n][capacity].profit, dp[n][capacity].subset)

\* C9 on catalogs whose ids ascend in catalog order.
TableHoldsTieBreakBestOnAscendingCatalogs ==
    (capacity >= 0 /\ IdsAscending(pallets) /\ (pc = "dp_fill" \/ out["dp"].printed)) =>
        /\ \A i \in 0..n : \A j \in 0..capacity :
              Written(i, j) =>
                  /\ Selects(dp[i][j].profit, dp[i][j].subset, TieBreakBest(pallets, i, j))
                  /\ dp[i][j].numPallets = Len(dp[i][j].subset)
        /\ out["dp"].printed =>
              out["dp"] = Output(dp[n][capacity].profit, dp[n][capacity].subset)

\* The passes of the 1-D DP are over.
DP1DPassesOver == (pc = "dp1d_fill" /\ i1 > n) \/ out["dp1d"].printed

\* C10 (as claimed): some dataset with capacity >= 0 leaves, after all passes,
\* a cell dp[j] with j < C that is better than dp[C] and that the final scan
\* reports instead of dp[C].  The datasets are those a run can load; the
\* statement is read once a run's passes are over.
C10_ScanReportsAnotherCell ==
    DP1DPassesOver =>
        \E f \in Families : \E k \in PalletCounts(f) :
           \E c \in FamilyCatalogs(f, k) : \E cap \in Capacities(f) :
              /\ cap >= 0
              /\ LET arr == DP1DPasses(c, cap)
                 IN \E j \in 0..(cap - 1) :
                       /\ DPCellLess(arr[cap], arr[j])
                       /\ DP1DBest(arr, cap) # arr[cap]

\* C10 (amended): after all passes no cell dp[j] is better than dp[C] under
\* DPCell::operator<, and the final scan reports dp[C].
C10_ScanReportsLastCell ==
    (capacity >= 0 /\ DP1DPassesOver) =>
        /\ \A j \in 0..capacity : ~DPCellLess(dp1[capacity], dp1[j])
        /\ DP1DBest(dp1, capacity) = dp1[capacity]
        /\ dp1 = DP1DPasses(pallets, capacity)
        /\ out["dp1d"].printed =>
              out["dp1d"] = Output(dp1[capacity].profit, dp1[capacity].subset)

\* C10 witness: the scan has run over an array in which a cell below C holds
\* another candidate of the same profit as dp[C].
C10_Witness ==
    /\ capacity >= 1
    /\ out["dp1d"].printed
    /\ \E j \in 0..(capacity - 1) :
          dp1[j].profit = dp1[capacity].profit /\ dp1[j] # dp1[capacity]

====
